---------------------------- MODULE Spec2Model ----------------------------
(***************************************************************************)
(* Model of the scheduling agent backend:                                  *)
(*   - CalendarService.find_free_slots (services/calendar.py)              *)
(*   - SchedulingAgent._execute_function and send_message                  *)
(*     (services/agent.py)                                                 *)
(*   - the /api/chat and /api/chat/reset handlers (main.py), served by a   *)
(*     single asyncio event loop.                                          *)
(* Time is counted in minutes since midnight of day 0 (naive UTC, as       *)
(* datetime.utcnow() gives it).                                            *)
(***************************************************************************)
EXTENDS Integers, Sequences, FiniteSets, TLC

VARIABLES
    slotIn,     \* inputs of one find_free_slots evaluation
    slotOut,    \* its result (NotRun before the call)
    dispIn,     \* inputs of one _execute_function evaluation
    dispOut,    \* its outcome (NotRun before the call)
    authed,     \* google_auth.is_authenticated()
    chat,       \* scheduling_agent.chat: NoChat or the chat history
    pc,         \* per request: where its handler stands
    sess,       \* per request: the caller's session id (never read by the code)
    turn,       \* per request: the model response being processed
    idx,        \* per request: position in function_calls
    responses,  \* per request: function_responses built so far
    rounds,     \* per request: tool round-trips of the running send_message
    reply       \* per request: what the last finished handler returned

vars == <<slotIn, slotOut, dispIn, dispOut, authed, chat, pc, sess, turn, idx,
          responses, rounds, reply>>

slotVars == <<slotIn, slotOut>>
dispVars == <<dispIn, dispOut>>
chatVars == <<authed, chat, pc, sess, turn, idx, responses, rounds, reply>>

NotRun == [state |-> "not_run"]

-----------------------------------------------------------------------------
(* Time and string conversions                                             *)

MinutesPerDay == 1440
MinutesPerHour == 60

\* now.date(): the calendar day of an instant
DateOf(t) == t \div MinutesPerDay

\* datetime(y, m, d, hour, 0, 0): raises ValueError unless 0 <= hour <= 23
MkDatetime(date, hour) ==
    IF hour \in 0..23
    THEN [ok |-> TRUE, t |-> date * MinutesPerDay + hour * MinutesPerHour]
    ELSE [ok |-> FALSE, t |-> 0]

\* datetime.isoformat() of a naive datetime: "YYYY-MM-DDTHH:MM:SS"
IsoFormat(t) ==
    <<t \div MinutesPerDay, (t % MinutesPerDay) \div MinutesPerHour, t % MinutesPerHour>>

\* date.strftime("%Y-%m-%d")
StrfDate(date) == <<date>>

\* the instant an isoformat string of a naive datetime denotes
IsoInstant(s) == s[1] * MinutesPerDay + s[2] * MinutesPerHour + s[3]

(* An event time string as _format_event hands it on:                      *)
(*   "dateTime" an RFC 3339 time with an offset ("...Z" or "...+00:00")    *)
(*   "local"    a time without an offset                                   *)
(*   "date"     an all-day date "YYYY-MM-DD"                               *)
(*   "empty"    "" (neither dateTime nor date present)                     *)
(*   "garbage"  a string datetime.fromisoformat rejects                    *)
(* t is the instant the string denotes (UTC).                              *)
EvTime(fmt, t) == [fmt |-> fmt, t |-> t]

\* bool(event["start"]): the empty string is falsy
Truthy(s) == s.fmt # "empty"

\* datetime.fromisoformat(s.replace("Z", "+00:00"))
FromIsoFormat(s) ==
    CASE s.fmt = "dateTime" -> [ok |-> TRUE, aware |-> TRUE, t |-> s.t]
      [] s.fmt = "local"    -> [ok |-> TRUE, aware |-> FALSE, t |-> s.t]
      [] s.fmt = "date"     -> [ok |-> TRUE, aware |-> FALSE,
                                t |-> DateOf(s.t) * MinutesPerDay]
      [] OTHER              -> [ok |-> FALSE, aware |-> FALSE, t |-> 0]

-----------------------------------------------------------------------------
(* CalendarService.find_free_slots                                         *)

SlotStep == 30
SlotLimit == 20

(* An argument value as the caller passes it: an int, a float or a string. *)
IntArg(v) == [tag |-> "int", v |-> v]

\* busy_times: the (start, end) pairs of the events whose two strings parse
RECURSIVE BuildBusy(_)
BuildBusy(events) ==
    IF events = <<>> THEN <<>>
    ELSE LET event == Head(events)
             rest == BuildBusy(Tail(events))
         IN IF Truthy(event.start) /\ Truthy(event.end)
            THEN LET start == FromIsoFormat(event.start)
                     end == FromIsoFormat(event.end)
                 IN IF start.ok /\ end.ok
                    THEN <<[start |-> start, end |-> end]>> \o rest
                    ELSE rest
            ELSE rest

\* not (slot_end <= busy_start or slot_start >= busy_end), the comparison of a
\* naive slot bound with an offset-aware busy bound raising TypeError
BusyDropsNot(slot_start, slot_end, b) ==
    IF b.start.aware THEN "raise"
    ELSE IF slot_end <= b.start.t THEN "overlap"
    ELSE IF b.end.aware THEN "raise"
    ELSE IF slot_start >= b.end.t THEN "overlap"
    ELSE "clear"

\* a test that sees an overlap only when the busy interval starts in the slot
OverlapsIfStartsInside(slot_start, slot_end, b) ==
    IF b.start.aware THEN "raise"
    ELSE IF slot_start <= b.start.t /\ b.start.t < slot_end THEN "overlap"
    ELSE "clear"

OverlapsBusy(slot_start, slot_end, b) ==
    IF b.start.aware THEN "raise"
    ELSE IF slot_end <= b.start.t THEN "clear"
    ELSE IF b.end.aware THEN "raise"
    ELSE IF slot_start >= b.end.t THEN "clear"
    ELSE "overlap"

\* the for loop over busy_times: "free", "busy" or "raise"
RECURSIVE IsFree(_, _, _)
IsFree(slot_start, slot_end, busy) ==
    IF busy = <<>> THEN "free"
    ELSE LET c == OverlapsBusy(slot_start, slot_end, Head(busy))
         IN CASE c = "raise"   -> "raise"
              [] c = "overlap" -> "busy"
              [] OTHER         -> IsFree(slot_start, slot_end, Tail(busy))

\* a while condition that only asks the candidate to start by day_end
FitsByStart(slot_start, duration, day_end) == slot_start <= day_end
\* while slot_start + timedelta(minutes=duration_minutes) <= day_end
Fits(slot_start, duration, day_end) == slot_start + duration <= day_end

\* a step of one hour
AdvanceHour(slot_start) == slot_start + MinutesPerHour
\* slot_start += timedelta(minutes=30)
Advance(slot_start) == slot_start + SlotStep

\* a day that always starts at start_hour
NoClamp(day_start, now) == day_start
\* if day_start < now: day_start = now
ClampStart(day_start, now) == IF day_start < now THEN now ELSE day_start

\* a scan that never breaks off
NeverReached(free_slots) == FALSE
\* a scan that also breaks off while it has found nothing
ReachedOrEmpty(free_slots) == Len(free_slots) >= SlotLimit \/ free_slots = <<>>
\* if len(free_slots) >= 20: break
Reached(free_slots) == Len(free_slots) >= SlotLimit

\* a list that takes each new slot at its front
InsertSlot(free_slots, slot) == <<slot>> \o free_slots
\* free_slots.append({...})
AppendSlot(free_slots, slot) == Append(free_slots, slot)

\* the while loop of one day
RECURSIVE ScanDay(_, _, _, _, _, _)
ScanDay(slot_start, day_end, duration, busy, check_date, free_slots) ==
    IF Fits(slot_start, duration, day_end)
    THEN LET slot_end == slot_start + duration
             f == IsFree(slot_start, slot_end, busy)
         IN CASE f = "raise" -> [raised |-> TRUE, slots |-> <<>>]
              [] f = "free"  ->
                   ScanDay(Advance(slot_start), day_end, duration, busy, check_date,
                           AppendSlot(free_slots, [start |-> IsoFormat(slot_start),
                                                   end |-> IsoFormat(slot_end),
                                                   date |-> StrfDate(check_date)]))
              [] OTHER ->
                   ScanDay(Advance(slot_start), day_end, duration, busy, check_date,
                           free_slots)
    ELSE [raised |-> FALSE, slots |-> free_slots]

\* the for loop over range(days_ahead); days counts the passes it made
RECURSIVE ScanDays(_, _, _, _, _, _, _, _)
ScanDays(day_offset, days_ahead, now, duration, start_hour, end_hour, busy, free_slots) ==
    IF day_offset >= days_ahead
    THEN [raised |-> FALSE, slots |-> free_slots, days |-> day_offset]
    ELSE LET check_date == DateOf(now) + day_offset
             ds == MkDatetime(check_date, start_hour)
             de == MkDatetime(check_date, end_hour)
         IN IF ~ds.ok \/ ~de.ok
            THEN [raised |-> TRUE, slots |-> <<>>, days |-> day_offset + 1]
            ELSE LET day_start == ClampStart(ds.t, now)
                     r == ScanDay(day_start, de.t, duration, busy, check_date, free_slots)
                 IN IF r.raised
                    THEN [raised |-> TRUE, slots |-> <<>>, days |-> day_offset + 1]
                    ELSE IF Reached(r.slots)
                    THEN [raised |-> FALSE, slots |-> r.slots, days |-> day_offset + 1]
                    ELSE ScanDays(day_offset + 1, days_ahead, now, duration,
                                  start_hour, end_hour, busy, r.slots)

\* free_slots[:20]
Truncate(s, n) == SubSeq(s, 1, IF Len(s) < n THEN Len(s) ELSE n)

(* gw is what the calendar gateway does for the list_events call:          *)
(*   "ok"         the events are returned                                  *)
(*   "http_error" HttpError, caught by list_events, which returns []       *)
(*   "not_auth"   _get_service raises ValueError                           *)
(*   "exc"        any other exception of the client library                *)
ListEvents(gw, events) ==
    CASE gw = "ok"         -> [raised |-> FALSE, events |-> events]
      [] gw = "http_error" -> [raised |-> FALSE, events |-> <<>>]
      [] OTHER             -> [raised |-> TRUE, events |-> <<>>]

\* what an except clause would return that put the error into the list
ErrorEntry == [start |-> <<>>, end |-> <<>>, date |-> <<>>]

\* an except clause that reports the error as an entry of the result
find_free_slots_reporting(now, duration_minutes, days_ahead, start_hour, end_hour, gw, events) ==
    IF days_ahead.tag = "str" THEN <<ErrorEntry>>
    ELSE LET le == ListEvents(gw, events)
         IN IF le.raised THEN <<ErrorEntry>>
            ELSE IF days_ahead.tag # "int" THEN <<ErrorEntry>>
            ELSE IF duration_minutes.tag = "str" THEN <<ErrorEntry>>
            ELSE LET r == ScanDays(0, days_ahead.v, now, duration_minutes.v,
                                   start_hour, end_hour, BuildBusy(le.events), <<>>)
                 IN IF r.raised THEN <<ErrorEntry>> ELSE Truncate(r.slots, SlotLimit)

find_free_slots(now, duration_minutes, days_ahead, start_hour, end_hour, gw, events) ==
    IF days_ahead.tag = "str" THEN <<>>              \* timedelta(days=...) TypeError
    ELSE LET le == ListEvents(gw, events)
         IN IF le.raised THEN <<>>
            ELSE IF days_ahead.tag # "int" THEN <<>>  \* range(float) TypeError
            ELSE IF duration_minutes.tag = "str" THEN <<>>
                 \* no day is scanned, or timedelta(minutes=...) raises TypeError
            ELSE LET r == ScanDays(0, days_ahead.v, now, duration_minutes.v,
                                   start_hour, end_hour, BuildBusy(le.events), <<>>)
                 IN IF r.raised THEN <<>> ELSE Truncate(r.slots, SlotLimit)

-----------------------------------------------------------------------------
(* SchedulingAgent._execute_function                                       *)

DefaultDuration == 60
DefaultDays == 7
WorkStartHour == 9
WorkEndHour == 17

\* the "name" entries of function_declarations, in the order of the list:
\* the Gmail tools, then the Calendar tools
GmailDeclarations ==
    <<"get_emails", "get_unread_emails", "get_email_details", "send_email",
      "search_emails", "delete_email", "mark_email_as_read">>

\* a list that declares the free-slot tool under the name of its route
CalendarDeclarationsRenamed ==
    <<"get_calendar_events", "get_today_events", "get_week_events",
      "create_calendar_event", "update_calendar_event", "delete_calendar_event",
      "get_free_slots">>
CalendarDeclarations ==
    <<"get_calendar_events", "get_today_events", "get_week_events",
      "create_calendar_event", "update_calendar_event", "delete_calendar_event",
      "find_free_slots">>

function_declarations == GmailDeclarations \o CalendarDeclarations

\* the names _get_tools declares
DeclaredTools == {function_declarations[i] : i \in DOMAIN function_declarations}

\* message texts are tuples of strings (a format string and what it embeds)
NotAuthMsg == <<"Not authenticated. Please login first.">>
GatewayMsg == <<"gateway failure">>

\* what a handler hands back: a returned dict or a raised exception; called
\* records whether the branch reached a service method's _get_service()
Ok(payload, n, slots) ==
    [raised |-> FALSE, success |-> TRUE, error |-> <<>>, payload |-> payload,
     count |-> n, free_slots |-> slots, called |-> FALSE]
Err(msg) ==
    [raised |-> FALSE, success |-> FALSE, error |-> msg, payload |-> "",
     count |-> 0, free_slots |-> <<>>, called |-> FALSE]
Raise(msg) ==
    [raised |-> TRUE, success |-> FALSE, error |-> msg, payload |-> "",
     count |-> 0, free_slots |-> <<>>, called |-> FALSE]
\* the outcome of a branch that reached a gateway call
ViaGateway(r) == [r EXCEPT !.called = TRUE]

(* A service method of gmail.py / calendar.py under gateway behaviour w.gw: *)
(* _get_service raises ValueError when there are no credentials, HttpError  *)
(* is caught inside the method and turned into [] / None / False, any other *)
(* exception leaves the method.                                             *)
GwRaises(w) == w.gw \in {"not_auth", "exc"}
GwMsg(w) == IF w.gw = "not_auth" THEN NotAuthMsg ELSE GatewayMsg
\* len() of the list a list method returns
ListLen(w) == IF w.gw = "ok" THEN w.n ELSE 0
\* truthiness of what an object or bool method returns
Succeeds(w) == w.gw = "ok"

(* A string argument: "absent" (None), "empty" (""), "iso" (an ISO time),  *)
(* "bad" (another string), "nonstr" (a value that is no string).           *)
ArgTruthy(a) == a \in {"iso", "bad", "nonstr"}
\* datetime.fromisoformat(a): <<>> when it returns, else the message raised
IsoError(a) ==
    CASE a = "iso"               -> <<>>
      [] a \in {"empty", "bad"}  -> <<"Invalid isoformat string">>
      [] OTHER                   -> <<"fromisoformat: argument must be str">>

ListTool(payload, w) ==
    ViaGateway(IF GwRaises(w) THEN Raise(GwMsg(w))
               ELSE Ok(payload, ListLen(w), <<>>))
ObjTool(payload, failure, w) ==
    ViaGateway(IF GwRaises(w) THEN Raise(GwMsg(w))
               ELSE IF Succeeds(w) THEN Ok(payload, 0, <<>>) ELSE Err(failure))

\* a lookup that leaves the default to the callee's own signature
ArgsGetNoDefault(a, default) == IF a.tag = "absent" THEN IntArg(0) ELSE a
\* args.get(key, default)
ArgsGet(a, default) == IF a.tag = "absent" THEN IntArg(default) ELSE a

\* an else branch whose message leaves the name out
UnknownFunctionUnnamed(function_name) == Err(<<"Unknown function">>)

\* else: return {"success": False, "error": f"Unknown function: {function_name}"}
UnknownFunction(function_name) == Err(<<"Unknown function: ", function_name>>)

\* the body of the try block
ExecBody(function_name, args, w) ==
    CASE function_name \in {"get_emails", "get_unread_emails", "search_emails"} ->
           ListTool("emails", w)
      [] function_name = "get_email_details" ->
           ObjTool("email", <<"Email not found">>, w)
      [] function_name = "send_email" ->
           ObjTool("message", <<"Failed to send email">>, w)
      [] function_name = "delete_email" ->
           ObjTool("message", <<"Failed to delete email">>, w)
      [] function_name = "mark_email_as_read" ->
           ObjTool("message", <<"Failed to mark email as read">>, w)
      [] function_name \in {"get_calendar_events", "get_today_events",
                            "get_week_events"} ->
           ListTool("events", w)
      [] function_name = "create_calendar_event" ->
           IF IsoError(args.start_time) # <<>> THEN Raise(IsoError(args.start_time))
           ELSE IF ArgTruthy(args.end_time) /\ IsoError(args.end_time) # <<>>
                THEN Raise(IsoError(args.end_time))
           ELSE ObjTool("event", <<"Failed to create event">>, w)
      [] function_name = "update_calendar_event" ->
           IF ArgTruthy(args.start_time) /\ IsoError(args.start_time) # <<>>
           THEN Raise(IsoError(args.start_time))
           ELSE IF ArgTruthy(args.end_time) /\ IsoError(args.end_time) # <<>>
                THEN Raise(IsoError(args.end_time))
           ELSE ObjTool("event", <<"Failed to update event">>, w)
      [] function_name = "delete_calendar_event" ->
           ObjTool("message", <<"Failed to delete event">>, w)
      [] function_name = "find_free_slots" ->
           LET duration == ArgsGet(args.duration_minutes, DefaultDuration)
               days == ArgsGet(args.days_ahead, DefaultDays)
               slots == find_free_slots(w.now, duration, days, WorkStartHour,
                                        WorkEndHour, w.gw, w.events)
               r == Ok("free_slots", Len(slots), slots)
           \* a str days_ahead raises before list_events is reached
           IN IF days.tag = "str" THEN r ELSE ViaGateway(r)
      [] OTHER -> UnknownFunction(function_name)

\* the try block without its except clause
ExecuteNoCatch(function_name, args, w) == ExecBody(function_name, args, w)

\* try: ... except Exception as e: return {"success": False, "error": str(e)}
execute_function(function_name, args, w) ==
    LET r == ExecBody(function_name, args, w)
    IN IF r.raised THEN [Err(r.error) EXCEPT !.called = r.called] ELSE r

-----------------------------------------------------------------------------
(* Inputs of the function-level specifications                             *)

MaxEvents == 2

At(day, hour, minute) == day * MinutesPerDay + hour * MinutesPerHour + minute

Event(fmt, s, e) == [start |-> EvTime(fmt, s), end |-> EvTime(fmt, e)]

\* events the calendar gateway may return
EventPool ==
    { Event("local", At(1, 9, 0), At(1, 10, 0)),
      Event("local", At(1, 10, 15), At(1, 10, 45)),
      Event("dateTime", At(1, 10, 0), At(1, 11, 0)),
      Event("date", At(2, 0, 0), At(3, 0, 0)),
      Event("empty", 0, 0),
      Event("garbage", 0, 0) }

SeqsUpTo(S, n) == UNION {[1..k -> S] : k \in 0..n}

GatewayBehaviours == {"ok", "http_error", "not_auth", "exc"}

Nows == {At(1, 8, 0), At(1, 9, 0), At(1, 9, 40), At(1, 17, 0)}
Durations == {IntArg(30), IntArg(60)}
DaysAhead == {IntArg(1), IntArg(2), IntArg(3)}
WorkHours == {<<9, 10>>, <<9, 11>>, <<9, 17>>, <<10, 12>>}

SlotInputs ==
    [now : Nows, duration_minutes : Durations, days_ahead : DaysAhead,
     hours : WorkHours, gw : GatewayBehaviours,
     events : SeqsUpTo(EventPool, MaxEvents)]

IdleChatState ==
    /\ authed = FALSE
    /\ chat = [open |-> FALSE, history |-> <<>>]
    /\ pc = <<>> /\ sess = <<>> /\ turn = <<>> /\ idx = <<>>
    /\ responses = <<>> /\ rounds = <<>> /\ reply = <<>>

InitSlots ==
    /\ slotIn \in SlotInputs
    /\ slotOut = NotRun
    /\ dispIn = NotRun /\ dispOut = NotRun
    /\ IdleChatState

\* GET /api/calendar/free-slots after require_auth (main.py), and the call itself
GetFreeSlots ==
    /\ slotOut = NotRun
    /\ slotOut' = [state |-> "returned",
                   slots |-> find_free_slots(slotIn.now, slotIn.duration_minutes,
                                             slotIn.days_ahead, slotIn.hours[1],
                                             slotIn.hours[2], slotIn.gw, slotIn.events)]
    /\ UNCHANGED <<slotIn, dispVars, chatVars>>

\* the same request once more: the same query parameters and the same calendar,
\* and the reading datetime.utcnow() gives by then
GetFreeSlotsAgain(now) ==
    /\ slotOut.state = "returned"
    /\ now >= slotIn.now
    /\ slotOut' = [state |-> "repeated", slots |-> slotOut.slots, now |-> now,
                   again |-> find_free_slots(now, slotIn.duration_minutes,
                                             slotIn.days_ahead, slotIn.hours[1],
                                             slotIn.hours[2], slotIn.gw, slotIn.events)]
    /\ UNCHANGED <<slotIn, dispVars, chatVars>>

NextSlots ==
    \/ GetFreeSlots
    \/ \E now \in Nows : GetFreeSlotsAgain(now)

SpecSlots == InitSlots /\ [][NextSlots]_vars

\* the events find_free_slots gets from list_events
Fetched(in) == ListEvents(in.gw, in.events).events

Returned(out) == out.state = "returned"

\* C6: no slot find_free_slots returns overlaps a busy interval built from the
\* fetched events: never slot.start < b.end and b.start < slot.end.
NoOverlap ==
    Returned(slotOut) =>
        \A i \in DOMAIN slotOut.slots :
            \A j \in DOMAIN BuildBusy(Fetched(slotIn)) :
                LET slot == slotOut.slots[i]
                    b == BuildBusy(Fetched(slotIn))[j]
                IN ~(IsoInstant(slot.start) < b.end.t /\ b.start.t < IsoInstant(slot.end))

\* slots were returned although a busy interval lies inside the scanned window
NoOverlapWitness ==
    /\ Returned(slotOut)
    /\ slotOut.slots # <<>>
    /\ \E j \in DOMAIN BuildBusy(Fetched(slotIn)) :
          LET b == BuildBusy(Fetched(slotIn))[j]
          IN /\ b.start.t >= At(1, slotIn.hours[1], 0)
             /\ b.start.t >= slotIn.now
             /\ b.end.t <= At(1, slotIn.hours[2], 0)

-----------------------------------------------------------------------------
(* One dispatch: _execute_function applied to an invocation                *)

UnknownTool == "no_such_tool"
\* get_labels is a method of gmail_service that no tool stands for
ToolNames == DeclaredTools \cup {UnknownTool, "get_labels"}

StrArgs == {"absent", "empty", "iso", "bad", "nonstr"}
NumArgs == {[tag |-> "absent", v |-> 0], IntArg(30), [tag |-> "float", v |-> 2],
            [tag |-> "str", v |-> 0]}

ArgMaps ==
    [start_time : StrArgs, end_time : StrArgs,
     duration_minutes : NumArgs, days_ahead : NumArgs]

\* what the gateways do during one dispatch, and the clock find_free_slots reads
Worlds ==
    [gw : GatewayBehaviours, n : {0, 2}, now : {At(1, 9, 40)},
     events : {<<>>, <<Event("local", At(1, 10, 15), At(1, 10, 45))>>}]

InitDispatch ==
    /\ dispIn \in [name : ToolNames, args : ArgMaps, w : Worlds]
    /\ dispOut = NotRun
    /\ slotIn = NotRun /\ slotOut = NotRun
    /\ IdleChatState

\* result = self._execute_function(fc.name, args), agent.py line 467
ExecuteFunction ==
    /\ dispOut = NotRun
    /\ dispOut' = [state |-> "returned",
                   r |-> execute_function(dispIn.name, dispIn.args, dispIn.w)]
    /\ UNCHANGED <<dispIn, slotVars, chatVars>>

NextDispatch == ExecuteFunction

SpecDispatch == InitDispatch /\ [][NextDispatch]_vars

\* C2: whatever the invocation (name, arguments) and whatever the gateways do,
\* _execute_function returns a result dict; no exception leaves it.
DispatchNeverRaises ==
    Returned(dispOut) => ~dispOut.r.raised

\* an unknown name, a malformed argument and a failing gateway each end in a
\* returned error result
DispatchNeverRaisesWitness ==
    /\ Returned(dispOut)
    /\ ~dispOut.r.raised
    /\ ~dispOut.r.success
    /\ dispIn.name = "create_calendar_event"
    /\ dispIn.args.start_time = "absent"

\* the tools whose handler reaches a mail or calendar gateway call with these
\* arguments
CallsGateway(name, args) ==
    CASE name = UnknownTool -> FALSE
      [] name = "create_calendar_event" ->
           /\ IsoError(args.start_time) = <<>>
           /\ (ArgTruthy(args.end_time) => IsoError(args.end_time) = <<>>)
      [] name = "update_calendar_event" ->
           /\ (ArgTruthy(args.start_time) => IsoError(args.start_time) = <<>>)
           /\ (ArgTruthy(args.end_time) => IsoError(args.end_time) = <<>>)
      [] name = "find_free_slots" -> args.days_ahead.tag # "str"
      [] OTHER -> TRUE

\* C8: when the gateway call made for an invocation fails, the dispatch result
\* is an error result with a message, never a success.
UpstreamFailuresAreErrors ==
    (/\ Returned(dispOut)
     /\ CallsGateway(dispIn.name, dispIn.args)
     /\ dispIn.w.gw # "ok")
    => (~dispOut.r.success /\ dispOut.r.error # <<>>)

-----------------------------------------------------------------------------
(* The chat handlers and SchedulingAgent.send_message                      *)

MaxRounds == 2        \* tool round-trips the model gateway asks for in one call
MaxHistory == 2       \* a new chat request is taken while the history is shorter
MaxStubRounds == 11   \* the same for the gateway stub that never answers in text
LoopBound == 10       \* the bound on tool round-trips the design asks for

Req == {"r1", "r2"}
Sessions == {"s1", "s2"}

NoChat == [open |-> FALSE, history |-> <<>>]
NoArgs ==
    [start_time |-> "absent", end_time |-> "absent",
     duration_minutes |-> [tag |-> "absent", v |-> 0],
     days_ahead |-> [tag |-> "absent", v |-> 0]]

\* the parts of a model response
Text(t) == [kind |-> "text", text |-> t, name |-> "", args |-> NoArgs]
Fc(name, args) == [kind |-> "fc", text |-> "", name |-> name, args |-> args]

\* hasattr(part, "function_call") and part.function_call.name
IsCall(part) == part.kind = "fc" /\ part.name # ""
\* a filter that keeps every text part, the empty ones too
HasTextAttr(part) == part.kind = "text"
\* hasattr(part, "text") and part.text
HasText(part) == part.kind = "text" /\ part.text # ""

FunctionCalls(parts) == SelectSeq(parts, IsCall)
TextParts(parts) ==
    LET sel == SelectSeq(parts, HasText)
    IN [i \in DOMAIN sel |-> sel[i].text]

ModelFailMsg == <<"model gateway failure">>

NoReply == [status |-> 0, kind |-> "none", text |-> <<>>]
HttpError(status) == [status |-> status, kind |-> "http_error", text |-> <<>>]
\* {"response": response}
Response(kind, text) == [status |-> 200, kind |-> kind, text |-> text]
\* return f"Error: {str(e)}"
ErrorReply(msg) == Response("error", <<"Error: ">> \o msg)
\* {"message": "Chat session reset"}, kept under the route's own key of reply
ResetRoute == "reset"
ResetReply == Response("reset", <<"Chat session reset">>)

\* a reset that only marks the chat as closed
ResetKeepsHistory(c) == [c EXCEPT !.open = FALSE]
\* self.chat = None
reset_chat(c) == NoChat
\* self.chat = self.model.start_chat(enable_automatic_function_calling=False)
start_chat(c) == [open |-> TRUE, history |-> <<>>]

\* a send_message that starts a chat for every message
AlwaysStartChat(c) == start_chat(c)
\* if not self.chat: self.start_chat()
EnsureChat(c) == IF c.open THEN c ELSE start_chat(c)

\* a turn with text parts answers with its text, whatever else it holds
TurnOutcomeTextFirst(parts) ==
    IF parts = <<>> THEN Response("done", <<"Done!">>)
    ELSE IF TextParts(parts) # <<>> THEN Response("text", TextParts(parts))
    ELSE IF FunctionCalls(parts) # <<>> THEN [status |-> 0, kind |-> "dispatch", text |-> <<>>]
    ELSE Response("fallback", <<"I couldn't process that request.">>)

\* what send_message does with one model response: leave the while loop
\* ("Done!"), return its text, or run its function calls
TurnOutcome(parts) ==
    IF parts = <<>> THEN Response("done", <<"Done!">>)
    ELSE IF FunctionCalls(parts) = <<>>
         THEN IF TextParts(parts) # <<>>
              THEN Response("text", TextParts(parts))
              ELSE Response("fallback", <<"I couldn't process that request.">>)
    ELSE [status |-> 0, kind |-> "dispatch", text |-> <<>>]

\* the function calls are taken last first
NextCallReversed(calls, i) == calls[Len(calls) + 1 - i]

\* for fc in function_calls
NextCall(calls, i) == calls[i]

\* a handler may also run while another one is inside send_message
LoopFreeThreaded(r) == TRUE

\* The handlers are coroutines of one event loop and send_message is a plain
\* blocking call: while a handler is inside it no other handler runs.
InSendMessage(r) == pc[r] \in {"model", "tools"}
LoopFree(r) == \A q \in Req \ {r} : ~InSendMessage(q)
LoopIdle == \A q \in Req : ~InSendMessage(q)

\* model responses
CallToday == Fc("get_today_events", NoArgs)
CallUnknown == Fc(UnknownTool, NoArgs)
CallCreate == Fc("create_calendar_event", NoArgs)

TextTurns == { <<>>, <<Text("hello")>>, <<Text("")>> }
ToolTurns == { <<CallToday>>, <<Text("partial"), CallToday>>, <<CallCreate, CallUnknown>> }
Answer(parts) == [raised |-> FALSE, parts |-> parts]
ModelRaises == [raised |-> TRUE, parts |-> <<>>]
ModelOutputs == {ModelRaises} \cup {Answer(t) : t \in TextTurns \cup ToolTurns}
StubOutputs == {Answer(t) : t \in ToolTurns}

ChatWorlds ==
    [gw : GatewayBehaviours, n : {2}, now : {At(1, 9, 40)}, events : {<<>>}]

Init ==
    /\ authed \in BOOLEAN
    /\ chat = NoChat
    /\ pc = [r \in Req |-> "idle"]
    /\ sess = [r \in Req |-> "s1"]
    /\ turn = [r \in Req |-> <<>>]
    /\ idx = [r \in Req |-> 0]
    /\ responses = [r \in Req |-> <<>>]
    /\ rounds = [r \in Req |-> 0]
    /\ reply = [r \in Req \cup {ResetRoute} |-> NoReply]
    /\ slotIn = NotRun /\ slotOut = NotRun
    /\ dispIn = NotRun /\ dispOut = NotRun

\* the handler returns (or raises HTTPException) and its locals are gone; the
\* response it last looked at is kept for reference
Return(r, rep) ==
    /\ pc' = [pc EXCEPT ![r] = "idle"]
    /\ reply' = [reply EXCEPT ![r] = rep]
    /\ idx' = [idx EXCEPT ![r] = 0]
    /\ responses' = [responses EXCEPT ![r] = <<>>]
    /\ rounds' = [rounds EXCEPT ![r] = 0]

\* a gate that lets every request pass
require_auth_open(authenticated) == TRUE
\* require_auth() returns; otherwise it raises HTTPException(401)
require_auth(authenticated) == authenticated

\* POST /api/chat up to "await request.json()": require_auth()
ChatRequest(r, s) ==
    /\ pc[r] = "idle"
    /\ LoopFree(r)
    /\ Len(chat.history) < MaxHistory
    /\ sess' = [sess EXCEPT ![r] = s]
    /\ turn' = [turn EXCEPT ![r] = <<>>]
    /\ IF require_auth(authed)
       THEN /\ pc' = [pc EXCEPT ![r] = "parsing"]
            /\ reply' = [reply EXCEPT ![r] = NoReply]
            /\ UNCHANGED <<idx, responses, rounds>>
       ELSE Return(r, HttpError(401))
    /\ UNCHANGED <<authed, chat, slotVars, dispVars>>

\* POST /api/chat from the message check to the first chat.send_message
ChatHandle(r, message) ==
    /\ pc[r] = "parsing"
    /\ LoopFree(r)
    /\ IF message = ""
       THEN /\ Return(r, HttpError(400))
            /\ chat' = chat
       ELSE /\ chat' = EnsureChat(chat)
            /\ pc' = [pc EXCEPT ![r] = "model"]
            /\ UNCHANGED <<reply, idx, responses, rounds>>
    /\ UNCHANGED <<authed, sess, turn, slotVars, dispVars>>

\* what chat.send_message adds to the history when the gateway answers
Sent(r) == [req |-> r, sid |-> sess[r],
            kind |-> IF rounds[r] = 0 THEN "user" ELSE "tool"]

\* chat.send_message returns or raises, and send_message looks at the response
ModelReturn(r, out, cap) ==
    /\ pc[r] = "model"
    /\ LoopFree(r)
    /\ IF out.raised
       THEN /\ Return(r, ErrorReply(ModelFailMsg))
            /\ UNCHANGED <<chat, turn>>
       ELSE LET o == TurnOutcome(out.parts)
            IN /\ chat' = [chat EXCEPT !.history = Append(@, Sent(r))]
               /\ turn' = [turn EXCEPT ![r] = out.parts]
               /\ IF o.kind = "dispatch"
                  THEN /\ rounds[r] < cap
                       /\ pc' = [pc EXCEPT ![r] = "tools"]
                       /\ idx' = [idx EXCEPT ![r] = 1]
                       /\ responses' = [responses EXCEPT ![r] = <<>>]
                       /\ UNCHANGED <<reply, rounds>>
                  ELSE Return(r, o)
    /\ UNCHANGED <<authed, sess, slotVars, dispVars>>

\* a tool result that reports a failure ends the call as well
AbortsOnError(result) == result.raised \/ ~result.success

\* only an exception leaves the loop, for the except clause of send_message
Aborts(result) == result.raised

\* one pass of "for fc in function_calls"
Dispatch(r, w) ==
    /\ pc[r] = "tools"
    /\ LoopFree(r)
    /\ idx[r] <= Len(FunctionCalls(turn[r]))
    /\ LET fc == NextCall(FunctionCalls(turn[r]), idx[r])
           result == execute_function(fc.name, fc.args, w)
       IN IF Aborts(result)
          THEN Return(r, ErrorReply(result.error))
          ELSE /\ responses' = [responses EXCEPT
                                  ![r] = Append(@, [name |-> fc.name, result |-> result])]
               /\ idx' = [idx EXCEPT ![r] = @ + 1]
               /\ UNCHANGED <<pc, reply, rounds>>
    /\ UNCHANGED <<authed, chat, sess, turn, slotVars, dispVars>>

\* response = self.chat.send_message(function_responses)
SendToolResponses(r) ==
    /\ pc[r] = "tools"
    /\ LoopFree(r)
    /\ idx[r] > Len(FunctionCalls(turn[r]))
    /\ IF chat.open
       THEN /\ pc' = [pc EXCEPT ![r] = "model"]
            /\ rounds' = [rounds EXCEPT ![r] = @ + 1]
            /\ UNCHANGED <<reply, idx, responses>>
       ELSE Return(r, ErrorReply(<<"'NoneType' object has no attribute 'send_message'">>))
    /\ UNCHANGED <<authed, chat, sess, turn, slotVars, dispVars>>

\* POST /api/chat/reset: scheduling_agent.reset_chat(), then the message
ResetChat ==
    /\ LoopIdle
    /\ chat' = reset_chat(chat)
    /\ reply' = [reply EXCEPT ![ResetRoute] = ResetReply]
    /\ UNCHANGED <<authed, pc, sess, turn, idx, responses, rounds,
                   slotVars, dispVars>>

\* GET /auth/callback with a successful token exchange
AuthCallback ==
    /\ LoopIdle
    /\ authed' = TRUE
    /\ UNCHANGED <<chat, pc, sess, turn, idx, responses, rounds, reply,
                   slotVars, dispVars>>

\* GET /auth/logout
AuthLogout ==
    /\ LoopIdle
    /\ authed' = FALSE
    /\ UNCHANGED <<chat, pc, sess, turn, idx, responses, rounds, reply,
                   slotVars, dispVars>>

Next ==
    \/ \E r \in Req, s \in Sessions : ChatRequest(r, s)
    \/ \E r \in Req, message \in {"", "hi"} : ChatHandle(r, message)
    \/ \E r \in Req, out \in ModelOutputs : ModelReturn(r, out, MaxRounds)
    \/ \E r \in Req, w \in ChatWorlds : Dispatch(r, w)
    \/ \E r \in Req : SendToolResponses(r)
    \/ ResetChat
    \/ AuthCallback
    \/ AuthLogout

Spec == Init /\ [][Next]_vars

\* The same handlers in front of a model gateway stub that answers every request
\* with a tool-call turn.
InitLoop == Init /\ authed = TRUE

NextLoop ==
    \/ \E r \in Req, s \in Sessions : ChatRequest(r, s)
    \/ \E r \in Req, message \in {"", "hi"} : ChatHandle(r, message)
    \/ \E r \in Req, out \in StubOutputs : ModelReturn(r, out, MaxStubRounds)
    \/ \E r \in Req, w \in ChatWorlds : Dispatch(r, w)
    \/ \E r \in Req : SendToolResponses(r)

SpecLoop == InitLoop /\ [][NextLoop]_vars

-----------------------------------------------------------------------------
(* Claims about the chat handlers                                          *)

\* C1: with a gateway that always answers with tool calls, one send_message
\* makes at most LoopBound tool round-trips before it ends in a failure text.
RoundsWithinLoopBound ==
    \A r \in Req : rounds[r] <= LoopBound

\* C3: two chat requests of the same session are never inside send_message at
\* the same time, and in the history every tool response directly follows a
\* message of the same request: the history is made of whole calls.
SameSessionSerialized ==
    /\ \A r1, r2 \in Req :
          (r1 # r2 /\ sess[r1] = sess[r2]) => ~(InSendMessage(r1) /\ InSendMessage(r2))
    /\ \A i \in DOMAIN chat.history :
          chat.history[i].kind = "tool" =>
              (i > 1 /\ chat.history[i - 1].req = chat.history[i].req)

\* a second request of the session waits while the first is in a tool round
SameSessionSerializedWitness ==
    \E r1, r2 \in Req :
        /\ r1 # r2 /\ sess[r1] = sess[r2]
        /\ pc[r1] = "tools" /\ rounds[r1] >= 1
        /\ pc[r2] = "parsing"

\* the history a request of session s is answered from: the one chat object of
\* the module-level scheduling_agent
HistorySeen(s) == chat.history

\* C4: the history a running send_message works on holds only turns of its own
\* session: nothing sent under another session id shows up in it.
SessionIsolation ==
    \A r \in Req :
        InSendMessage(r) =>
            \A i \in DOMAIN HistorySeen(sess[r]) : HistorySeen(sess[r])[i].sid = sess[r]

\* C5: while a request of one session is blocked in a gateway call, a request of
\* another session that is ready to be handled can take its next step.
NoCrossSessionStall ==
    \A r1, r2 \in Req :
        (/\ r1 # r2 /\ sess[r1] # sess[r2]
         /\ InSendMessage(r1)
         /\ pc[r2] = "parsing")
        => ENABLED (\E message \in {"", "hi"} : ChatHandle(r2, message))

\* C7: a send_message that is dispatching tools never ends there: every
\* dispatch, failed or not, adds its result to the tool response, the chat is
\* kept, and the next thing that happens is the model call that carries all
\* the results.
ToolErrorsFedBack ==
    [][\A r \in Req :
          pc[r] = "tools" =>
              /\ pc'[r] \in {"tools", "model"}
              /\ chat' = chat /\ chat.open
              /\ (idx'[r] # idx[r] =>
                     /\ idx'[r] = idx[r] + 1
                     /\ Len(responses'[r]) = Len(responses[r]) + 1)
              /\ (pc'[r] = "model" =>
                     /\ responses'[r] = responses[r]
                     /\ Len(responses[r]) = Len(FunctionCalls(turn[r])))]_vars

\* the 'Not authenticated' error of get_today_events is in the tool response
\* that was sent, and the call waits for the model's next turn
ToolErrorsFedBackWitness ==
    \E r \in Req :
        /\ pc[r] = "model" /\ rounds[r] >= 1
        /\ \E i \in DOMAIN responses[r] :
              /\ responses[r][i].name = "get_today_events"
              /\ ~responses[r][i].result.success
              /\ responses[r][i].result.error = NotAuthMsg

\* C9: a text reply is the text of a turn without function calls; every other
\* reply of send_message is one of its own fixed messages.
TextOnlyFromTextTurns ==
    \A r \in Req :
        (pc[r] = "idle" /\ reply[r].status = 200) =>
            /\ reply[r].kind \in {"text", "fallback", "done", "error"}
            /\ reply[r].kind = "text" =>
                  /\ FunctionCalls(turn[r]) = <<>>
                  /\ reply[r].text = TextParts(turn[r])
            /\ reply[r].kind = "fallback" => reply[r].text = <<"I couldn't process that request.">>
            /\ reply[r].kind = "done" => reply[r].text = <<"Done!">>

\* a text reply given after a tool round
TextOnlyFromTextTurnsWitness ==
    \E r \in Req :
        /\ pc[r] = "idle" /\ reply[r].kind = "text"
        /\ chat.history # <<>>
        /\ chat.history[Len(chat.history)].kind = "tool"
        /\ chat.history[Len(chat.history)].req = r

\* C10: in a tool round the results are those of the turn's invocations, in
\* the model's order, one per invocation; the tool response goes out once all
\* N are there; and the messages of a call in the history are its user message
\* followed by one tool response per finished round.
ToolRoundProtocol ==
    \A r \in Req :
        LET calls == FunctionCalls(turn[r])
            h == chat.history
            k == IF pc[r] = "tools" THEN rounds[r] + 1 ELSE rounds[r]
        IN InSendMessage(r) =>
              /\ pc[r] = "tools" =>
                    /\ calls # <<>>
                    /\ idx[r] = Len(responses[r]) + 1
                    /\ idx[r] <= Len(calls) + 1
              /\ (pc[r] = "model" /\ rounds[r] > 0) => Len(responses[r]) = Len(calls)
              /\ \A i \in DOMAIN responses[r] : responses[r][i].name = calls[i].name
              /\ Len(h) >= k
              /\ \A j \in 1..k :
                    /\ h[Len(h) - k + j].req = r
                    /\ h[Len(h) - k + j].kind = IF j = 1 THEN "user" ELSE "tool"

\* the response to a turn with two invocations was sent in a second round
ToolRoundProtocolWitness ==
    \E r \in Req :
        /\ pc[r] = "model" /\ rounds[r] = 2
        /\ Len(responses[r]) = 2
        /\ responses[r][1].name # responses[r][2].name

\* C11: an invocation of a name that is no declared tool yields the result
\* success = False with the error text "Unknown function: <name>", whatever
\* the gateways would do and without a gateway call being reached; the result
\* takes its place in the tool response that goes back to the model, and no
\* call ends with that text as its error reply.
UnknownToolIsData ==
    \A r \in Req :
        /\ \A i \in DOMAIN responses[r] :
              responses[r][i].name \notin DeclaredTools =>
                  LET result == responses[r][i].result
                  IN /\ ~result.raised /\ ~result.success
                     /\ result.error = <<"Unknown function: ", responses[r][i].name>>
                     /\ ~result.called
        /\ (pc[r] = "model" /\ rounds[r] > 0) =>
              \A i \in DOMAIN FunctionCalls(turn[r]) :
                  FunctionCalls(turn[r])[i].name \notin DeclaredTools =>
                      /\ i \in DOMAIN responses[r]
                      /\ responses[r][i].name = FunctionCalls(turn[r])[i].name
        /\ (pc[r] = "idle" /\ reply[r].kind = "error") =>
              \A name \in ToolNames \ DeclaredTools :
                  reply[r].text # <<"Error: ", "Unknown function: ", name>>

\* the response to a turn that invoked no_such_tool was sent to the model
UnknownToolIsDataWitness ==
    \E r \in Req :
        /\ pc[r] = "model" /\ rounds[r] >= 1
        /\ \E i \in DOMAIN responses[r] :
              /\ responses[r][i].name = UnknownTool
              /\ responses[r][i].result.error = <<"Unknown function: ", UnknownTool>>

-----------------------------------------------------------------------------
(* Claims about _execute_function and the declared parameter schemas       *)

(* The arguments that break the schema _get_tools declares, among the       *)
(* arguments modelled here: start_time is a required string of              *)
(* create_calendar_event, start_time and end_time are strings wherever      *)
(* they are declared, duration_minutes and days_ahead are integers.         *)
SchemaViolated(name, args) ==
    CASE name = "create_calendar_event" ->
           args.start_time \in {"absent", "nonstr"} \/ args.end_time = "nonstr"
      [] name = "update_calendar_event" ->
           args.start_time = "nonstr" \/ args.end_time = "nonstr"
      [] name = "find_free_slots" ->
           args.duration_minutes.tag = "str" \/ args.days_ahead.tag = "str"
      [] OTHER -> FALSE

\* C12: a declared tool dispatched with arguments that break its declared
\* schema returns an error result with a message, never a success result.
ValidationFailuresAreErrors ==
    (/\ Returned(dispOut)
     /\ dispIn.name \in DeclaredTools
     /\ SchemaViolated(dispIn.name, dispIn.args))
    => (~dispOut.r.success /\ dispOut.r.error # <<>>)

-----------------------------------------------------------------------------
(* Claims about the reset route                                            *)

\* C13: the reset route can run whenever the event loop is free, even before
\* any message was sent, and answers with its message; the step that gives the
\* answer leaves no chat and no history; nothing but a reset takes a chat away;
\* and the chat a later send_message starts has an empty history.
ResetDiscardsHistory ==
    /\ [](LoopIdle => ENABLED ResetChat)
    /\ [](~chat.open => chat = NoChat)
    /\ [][/\ reply'[ResetRoute] # reply[ResetRoute] =>
               (reply'[ResetRoute] = ResetReply /\ chat' = NoChat)
          /\ (chat.open /\ ~chat'.open) =>
               (reply'[ResetRoute] = ResetReply /\ chat' = NoChat)
          /\ (~chat.open /\ chat'.open) => chat'.history = <<>>]_vars

\* r1's message was answered from the history, the chat was reset, and r2's
\* send_message now runs on a history that holds r2's message only
ResetDiscardsHistoryWitness ==
    \E r1, r2 \in Req :
        /\ r1 # r2
        /\ reply[ResetRoute] = ResetReply
        /\ pc[r1] = "idle" /\ reply[r1].kind = "text"
        /\ pc[r2] = "tools"
        /\ Len(chat.history) = 1
        /\ chat.history[1].req = r2

-----------------------------------------------------------------------------
(* Claims about find_free_slots                                            *)

\* C14: every returned slot starts at or after the clock reading now of the
\* call; when today's window began before now, today's slots are counted in
\* 30-minute steps from now itself, not from start_hour:00.
NoPast ==
    Returned(slotOut) =>
        \A i \in DOMAIN slotOut.slots :
            LET slot == slotOut.slots[i]
                t == IsoInstant(slot.start)
                today == DateOf(slotIn.now)
            IN /\ t >= slotIn.now
               /\ (/\ slot.date = <<today>>
                   /\ At(today, slotIn.hours[1], 0) < slotIn.now)
                  => (t - slotIn.now) % 30 = 0

\* at 09:40 in a window that opened at 09:00 the first slot starts at 09:40
NoPastWitness ==
    /\ Returned(slotOut)
    /\ At(DateOf(slotIn.now), slotIn.hours[1], 0) < slotIn.now
    /\ slotOut.slots # <<>>
    /\ IsoInstant(slotOut.slots[1].start) = slotIn.now

\* C15: every returned slot lies in the working window of the date in its date
\* field: start >= start_hour:00 and end <= end_hour:00 of that date, and the
\* start is a time of that date.
WithinWorkingHours ==
    Returned(slotOut) =>
        \A i \in DOMAIN slotOut.slots :
            LET slot == slotOut.slots[i]
                date == slot.date[1]
            IN /\ IsoInstant(slot.start) >= At(date, slotIn.hours[1], 0)
               /\ IsoInstant(slot.end) <= At(date, slotIn.hours[2], 0)
               /\ slot.start[1] = date

\* a slot of the second day that ends exactly at end_hour:00
WithinWorkingHoursWitness ==
    /\ Returned(slotOut)
    /\ \E i \in DOMAIN slotOut.slots :
          LET slot == slotOut.slots[i]
          IN /\ slot.date[1] = DateOf(slotIn.now) + 1
             /\ IsoInstant(slot.end) = At(slot.date[1], slotIn.hours[2], 0)

\* the candidates of the day day_offset days after now: start_hour:00 (now, if
\* that is later) plus a multiple of 30 minutes, ending by end_hour:00
CandidateStarts(in, day_offset) ==
    LET date == DateOf(in.now) + day_offset
        open == At(date, in.hours[1], 0)
        from == IF open < in.now THEN in.now ELSE open
        to == At(date, in.hours[2], 0)
    IN {t \in from..to : (t - from) % 30 = 0 /\ t + in.duration_minutes.v <= to}

\* the candidates among them that overlap no busy interval
FreeStarts(in, day_offset) ==
    {t \in CandidateStarts(in, day_offset) :
        \A j \in DOMAIN BuildBusy(Fetched(in)) :
            LET b == BuildBusy(Fetched(in))[j]
            IN ~(t < b.end.t /\ b.start.t < t + in.duration_minutes.v)}

FreeStartsUpTo(in, n) == UNION {FreeStarts(in, d) : d \in 0..(n - 1)}

\* a set of instants in increasing order
Ascending(S) ==
    [i \in 1..Cardinality(S) |-> CHOOSE x \in S : Cardinality({y \in S : y < x}) = i - 1]

\* the scan find_free_slots makes once the events are fetched
ScanOf(in) ==
    ScanDays(0, in.days_ahead.v, in.now, in.duration_minutes.v, in.hours[1],
             in.hours[2], BuildBusy(Fetched(in)), <<>>)

\* the call gets through its scan: nothing raises on the way
ScanCompletes(in) == ~ListEvents(in.gw, in.events).raised /\ ~ScanOf(in).raised

\* the days it takes to find 20 free candidates, all days if there are fewer
DaysNeeded(in) ==
    LET enough == {n \in 1..in.days_ahead.v : Cardinality(FreeStartsUpTo(in, n)) >= 20}
    IN IF enough = {} THEN in.days_ahead.v
       ELSE CHOOSE n \in enough : \A m \in enough : n <= m

\* C16: the result has at most 20 slots and no more slots than there are
\* candidates, and it is the first 20 of the free candidates in scan order
\* (all of them if there are fewer), whatever events were fetched.
CapKeepsFirstTwenty ==
    (Returned(slotOut) /\ ~ListEvents(slotIn.gw, slotIn.events).raised) =>
        LET n == Len(slotOut.slots)
            free == Ascending(FreeStartsUpTo(slotIn, slotIn.days_ahead.v))
        IN /\ n <= 20
           /\ n <= Cardinality(UNION {CandidateStarts(slotIn, d) :
                                        d \in 0..(slotIn.days_ahead.v - 1)})
           /\ n = IF Len(free) < 20 THEN Len(free) ELSE 20
           /\ \A i \in 1..n : IsoInstant(slotOut.slots[i].start) = free[i]

\* C16, of the calls whose scan completes: the result has at most 20 slots and
\* no more slots than there are candidates; it is the first 20 of the free
\* candidates in scan order (all of them if there are fewer), and the scan
\* stops with the day on which the 20th slot was found.
CapInvariant ==
    Returned(slotOut) =>
        LET n == Len(slotOut.slots)
            free == Ascending(FreeStartsUpTo(slotIn, slotIn.days_ahead.v))
        IN /\ n <= 20
           /\ n <= Cardinality(UNION {CandidateStarts(slotIn, d) :
                                        d \in 0..(slotIn.days_ahead.v - 1)})
           /\ ScanCompletes(slotIn) =>
                 /\ n = IF Len(free) < 20 THEN Len(free) ELSE 20
                 /\ \A i \in 1..n : IsoInstant(slotOut.slots[i].start) = free[i]
                 /\ ScanOf(slotIn).days = DaysNeeded(slotIn)

\* 16 free candidates a day: the 20th slot is found on the second of three
\* days, the third is not scanned and 12 found slots are cut off
CapInvariantWitness ==
    /\ Returned(slotOut)
    /\ Len(slotOut.slots) = 20
    /\ slotIn.days_ahead.v = 3
    /\ ScanOf(slotIn).days = 2
    /\ Len(ScanOf(slotIn).slots) = 32

\* C17: two calls of find_free_slots with the same busy intervals and the same
\* duration, days ahead and working hours return the same list.
Deterministic ==
    slotOut.state = "repeated" => slotOut.again = slotOut.slots

\* the slot [from, to) of one day as find_free_slots reports it
SlotOf(from, to) ==
    [start |-> IsoFormat(from), end |-> IsoFormat(to), date |-> StrfDate(DateOf(from))]

\* busy = [09:00-10:00 today], duration 30, 1 day ahead, hours 9 to 10, 08:00
FullyBusyScenario(in) ==
    /\ in.now = At(1, 8, 0)
    /\ in.duration_minutes = IntArg(30)
    /\ in.days_ahead = IntArg(1)
    /\ in.hours = <<9, 10>>
    /\ in.gw = "ok"
    /\ in.events = <<Event("local", At(1, 9, 0), At(1, 10, 0))>>

\* C18: with the one busy interval 09:00-10:00 today, duration 30 minutes, one
\* day ahead, working hours 9 to 10 and now = 08:00 today, find_free_slots
\* returns the empty list.
FullyBusyWindow ==
    (Returned(slotOut) /\ FullyBusyScenario(slotIn)) => slotOut.slots = <<>>

\* the call of the scenario returned, its busy list holding the one interval
FullyBusyWindowWitness ==
    /\ Returned(slotOut)
    /\ FullyBusyScenario(slotIn)
    /\ Len(BuildBusy(Fetched(slotIn))) = 1
    /\ Cardinality(CandidateStarts(slotIn, 0)) = 2

\* busy = [], duration 60, hours 9 to 11, 1 day ahead
StrideScenario(in) ==
    /\ in.duration_minutes = IntArg(60)
    /\ in.days_ahead = IntArg(1)
    /\ in.hours = <<9, 11>>
    /\ ~ListEvents(in.gw, in.events).raised
    /\ BuildBusy(Fetched(in)) = <<>>

\* the slots 09:00-10:00, 09:30-10:30, 10:00-11:00 of the day of now
StrideSlots(in) ==
    LET today == DateOf(in.now)
    IN << SlotOf(At(today, 9, 0), At(today, 10, 0)),
          SlotOf(At(today, 9, 30), At(today, 10, 30)),
          SlotOf(At(today, 10, 0), At(today, 11, 0)) >>

\* C19 as stated: with no busy intervals, duration 60 minutes, working hours 9
\* to 11 and 1 day ahead, find_free_slots returns exactly the 3 slots
\* 09:00-10:00, 09:30-10:30 and 10:00-11:00, in that order.
StrideAtAnyTime ==
    (Returned(slotOut) /\ StrideScenario(slotIn)) => slotOut.slots = StrideSlots(slotIn)

\* C19: with no busy intervals, duration 60 minutes, working hours 9 to 11, 1
\* day ahead and a clock that has not passed 09:00 of the day, find_free_slots
\* returns exactly the 3 slots 09:00-10:00, 09:30-10:30 and 10:00-11:00, in
\* that order.
StrideBeforeWindow ==
    (/\ Returned(slotOut)
     /\ StrideScenario(slotIn)
     /\ slotIn.now <= At(DateOf(slotIn.now), 9, 0))
    => slotOut.slots = StrideSlots(slotIn)

\* the call made at 09:00 sharp returned its three slots
StrideBeforeWindowWitness ==
    /\ Returned(slotOut)
    /\ StrideScenario(slotIn)
    /\ slotIn.now = At(1, 9, 0)
    /\ Len(slotOut.slots) = 3

-----------------------------------------------------------------------------
(* Claims about the find_free_slots tool                                   *)

\* the argument as the model gave it, or the stated default if it gave none
OrDefault(a, default) == IF a.tag = "absent" THEN IntArg(default) ELSE a

\* C20: the find_free_slots tool searches with 60 minutes where the model gave
\* no duration_minutes and with 7 days where it gave no days_ahead, in working
\* hours 9 to 17; the count of its result is the length of free_slots, and
\* every entry of free_slots has exactly the fields start, end and date.
FreeSlotsToolInterface ==
    (Returned(dispOut) /\ dispIn.name = "find_free_slots") =>
        LET r == dispOut.r
            w == dispIn.w
        IN /\ r.success /\ r.payload = "free_slots"
           /\ r.free_slots =
                 find_free_slots(w.now, OrDefault(dispIn.args.duration_minutes, 60),
                                 OrDefault(dispIn.args.days_ahead, 7), 9, 17,
                                 w.gw, w.events)
           /\ r.count = Len(r.free_slots)
           /\ \A i \in DOMAIN r.free_slots :
                 DOMAIN r.free_slots[i] = {"start", "end", "date"}

\* called without arguments on a calendar with one event, the tool fills the
\* cap of 20 with 60-minute slots, the last of them on the day after
FreeSlotsToolInterfaceWitness ==
    /\ Returned(dispOut)
    /\ dispIn.name = "find_free_slots"
    /\ dispIn.args.duration_minutes.tag = "absent"
    /\ dispIn.args.days_ahead.tag = "absent"
    /\ dispOut.r.count = 20
    /\ IsoInstant(dispOut.r.free_slots[1].end) - IsoInstant(dispOut.r.free_slots[1].start) = 60
    /\ dispIn.w.events # <<>>
    /\ dispOut.r.free_slots[20].date = <<DateOf(dispIn.w.now) + 1>>

\* C21: no name is declared twice, and the declared names are exactly the
\* names _execute_function has a branch for: a declared name never gets the
\* unknown-function result and every other name gets it.
RegistryConsistent ==
    /\ \A i, j \in DOMAIN function_declarations :
          i # j => function_declarations[i] # function_declarations[j]
    /\ Returned(dispOut) =>
          (dispIn.name \in DeclaredTools
             <=> dispOut.r.error # <<"Unknown function: ", dispIn.name>>)

\* the last declared tool was dispatched and answered by its own branch
RegistryConsistentWitness ==
    /\ Returned(dispOut)
    /\ dispIn.name = function_declarations[Len(function_declarations)]
    /\ dispOut.r.payload = "free_slots"

\* C22: as long as fewer than 20 slots were found, the result holds every
\* candidate of every scanned day that overlaps no busy interval built from
\* the fetched events.
CompleteBelowCap ==
    (/\ Returned(slotOut)
     /\ ~ListEvents(slotIn.gw, slotIn.events).raised
     /\ Len(slotOut.slots) < 20)
    => \A d \in 0..(slotIn.days_ahead.v - 1) :
          \A t \in FreeStarts(slotIn, d) :
              \E i \in DOMAIN slotOut.slots :
                  slotOut.slots[i] = SlotOf(t, t + slotIn.duration_minutes.v)

\* C23: a candidate that ends where a busy interval starts, or starts where
\* one ends, and overlaps no busy interval is in the result, as long as fewer
\* than 20 slots were found.
TouchingIsFree ==
    (/\ Returned(slotOut)
     /\ ~ListEvents(slotIn.gw, slotIn.events).raised
     /\ Len(slotOut.slots) < 20)
    => \A d \in 0..(slotIn.days_ahead.v - 1) :
          \A t \in CandidateStarts(slotIn, d) :
              LET e == t + slotIn.duration_minutes.v
                  busy == BuildBusy(Fetched(slotIn))
              IN (/\ \E j \in DOMAIN busy : busy[j].start.t = e \/ busy[j].end.t = t
                  /\ \A j \in DOMAIN busy : ~(t < busy[j].end.t /\ busy[j].start.t < e))
                 => \E i \in DOMAIN slotOut.slots : slotOut.slots[i] = SlotOf(t, e)

-----------------------------------------------------------------------------
(* GET /api/calendar/free-slots with any integer query parameters: the     *)
(* route hands them to find_free_slots as they come                        *)

AnyNows == {At(1, 8, 0), At(1, 16, 45)}
AnyDurations == {IntArg(-30), IntArg(0), IntArg(45), IntArg(60)}
AnyDaysAhead == {IntArg(-1), IntArg(0), IntArg(1), IntArg(2)}
AnyWorkHours == {<<9, 17>>, <<17, 9>>, <<9, 9>>, <<9, 24>>, <<0, 24>>, <<-1, 5>>, <<22, 23>>}
AnyEventPool ==
    { Event("local", At(1, 9, 0), At(1, 10, 0)),
      Event("dateTime", At(1, 10, 0), At(1, 11, 0)) }

AnySlotInputs ==
    [now : AnyNows, duration_minutes : AnyDurations, days_ahead : AnyDaysAhead,
     hours : AnyWorkHours, gw : GatewayBehaviours,
     events : SeqsUpTo(AnyEventPool, MaxEvents)]

InitSlotsAny ==
    /\ slotIn \in AnySlotInputs
    /\ slotOut = NotRun
    /\ dispIn = NotRun /\ dispOut = NotRun
    /\ IdleChatState

SpecSlotsAny == InitSlotsAny /\ [][NextSlots]_vars

\* duration > 0, 0 <= workStartHour < workEndHour <= 24, daysAhead >= 1
ValidQuery(in) ==
    /\ in.duration_minutes.v > 0
    /\ 0 <= in.hours[1] /\ in.hours[1] < in.hours[2] /\ in.hours[2] <= 24
    /\ in.days_ahead.v >= 1

\* C25: for a query within the stated invariants, the end hour 24 included,
\* whose fetched events give no busy interval and whose window is at least as
\* long as the duration, a scan that reaches a future day returns slots.
ValidQueryFindsSlots ==
    (/\ Returned(slotOut)
     /\ ValidQuery(slotIn)
     /\ ~ListEvents(slotIn.gw, slotIn.events).raised
     /\ BuildBusy(Fetched(slotIn)) = <<>>
     /\ (slotIn.hours[2] - slotIn.hours[1]) * MinutesPerHour >= slotIn.duration_minutes.v
     /\ slotIn.days_ahead.v >= 2)
    => slotOut.slots # <<>>

\* the passes the while loop of one day makes from slot_start
RECURSIVE WhilePasses(_, _, _)
WhilePasses(slot_start, day_end, duration) ==
    IF Fits(slot_start, duration, day_end)
    THEN 1 + WhilePasses(Advance(slot_start), day_end, duration)
    ELSE 0

\* the distance of slot_start from the last start that still fits, in steps
PassesLeft(slot_start, day_end, duration) ==
    IF slot_start + duration <= day_end
    THEN (day_end - duration - slot_start) \div SlotStep + 1
    ELSE 0

\* the start of the while loop on the day day_offset days after now
WhileStart(in, day_offset) ==
    ClampStart(MkDatetime(DateOf(in.now) + day_offset, in.hours[1]).t, in.now)

\* C30: for all integer parameters, those with duration_minutes <= 0,
\* days_ahead <= 0 or start_hour >= end_hour included, the call returns, and
\* what it returns is a list of at most 20 slots of this query; on every day
\* the while loop makes exactly as many passes as there are 30-minute steps
\* from its start to the last start that fits before the day end.
TerminatesWithList ==
    /\ slotOut = NotRun => ENABLED GetFreeSlots
    /\ Returned(slotOut) =>
          /\ Len(slotOut.slots) <= SlotLimit
          /\ \A i \in DOMAIN slotOut.slots :
                \E d \in 0..(slotIn.days_ahead.v - 1) :
                   \E k \in 0..(MinutesPerDay \div SlotStep) :
                      LET t == WhileStart(slotIn, d) + k * SlotStep
                      IN slotOut.slots[i] =
                            [start |-> IsoFormat(t),
                             end |-> IsoFormat(t + slotIn.duration_minutes.v),
                             date |-> StrfDate(DateOf(slotIn.now) + d)]
          /\ \A d \in 0..(slotIn.days_ahead.v - 1) :
                LET day_end == MkDatetime(DateOf(slotIn.now) + d, slotIn.hours[2])
                    passes == WhilePasses(WhileStart(slotIn, d), day_end.t,
                                          slotIn.duration_minutes.v)
                IN day_end.ok =>
                      /\ passes = PassesLeft(WhileStart(slotIn, d), day_end.t,
                                             slotIn.duration_minutes.v)
                      /\ passes <= MinutesPerDay \div SlotStep + 1

\* a duration of -30 minutes: the scan of two days ends with 20 slots, each
\* ending before it starts
TerminatesWithListWitness ==
    /\ Returned(slotOut)
    /\ slotIn.duration_minutes.v < 0
    /\ Len(slotOut.slots) = SlotLimit
    /\ IsoInstant(slotOut.slots[1].end) < IsoInstant(slotOut.slots[1].start)

\* a query outside the invariants whose scan raises: the result is the empty list
TerminatesOnRaiseWitness ==
    /\ Returned(slotOut)
    /\ slotIn.duration_minutes.v <= 0
    /\ ~ListEvents(slotIn.gw, slotIn.events).raised
    /\ ScanOf(slotIn).raised
    /\ slotOut.slots = <<>>

\* C29: the result is strictly increasing in slot start time: the dates never
\* decrease, two successive slots of one day start a positive multiple of 30
\* minutes apart, and no slot appears twice.
Chronological ==
    Returned(slotOut) =>
        /\ \A i \in 1..(Len(slotOut.slots) - 1) :
              LET a == slotOut.slots[i]
                  b == slotOut.slots[i + 1]
              IN /\ IsoInstant(a.start) < IsoInstant(b.start)
                 /\ a.date[1] <= b.date[1]
                 /\ a.date = b.date =>
                       (IsoInstant(b.start) - IsoInstant(a.start)) % SlotStep = 0
        /\ \A i, j \in DOMAIN slotOut.slots :
              slotOut.slots[i] = slotOut.slots[j] => i = j

\* a result over two days with a gap of more than 30 minutes where a busy
\* interval lies
ChronologicalWitness ==
    /\ Returned(slotOut)
    /\ \E i \in 1..(Len(slotOut.slots) - 1) :
          /\ slotOut.slots[i].date = slotOut.slots[i + 1].date
          /\ IsoInstant(slotOut.slots[i + 1].start) - IsoInstant(slotOut.slots[i].start)
                > SlotStep
    /\ \E i \in 1..(Len(slotOut.slots) - 1) :
          slotOut.slots[i].date # slotOut.slots[i + 1].date

-----------------------------------------------------------------------------
(* Claims about send_message and the chat routes                           *)

\* the string send_message returned: "\n".join(...) or a fixed text
IsReplyText(rep) ==
    /\ rep.status = 200
    /\ rep.text # <<>>
    /\ \A i \in DOMAIN rep.text : rep.text[i] # ""

\* C26: whatever the model gateway does, a send_message call that ends returns
\* a non-empty string (no exception reaches the handler), and when the gateway
\* raised, the chat object and its history are the ones from before the call
\* to the gateway.
AlwaysTextReply ==
    /\ [](\A r \in Req : reply[r].status = 200 => IsReplyText(reply[r]))
    /\ [][\A r \in Req :
            (InSendMessage(r) /\ ~InSendMessage(r)') =>
                /\ pc'[r] = "idle"
                /\ IsReplyText(reply'[r])
                /\ reply'[r] = ErrorReply(ModelFailMsg) => (chat' = chat /\ chat'.open)]_vars

\* the gateway raised for r1 after the chat had taken its message, and r2's
\* message went into the same chat afterwards
AlwaysTextReplyWitness ==
    /\ reply["r1"] = ErrorReply(ModelFailMsg)
    /\ chat.open
    /\ Len(chat.history) = 2
    /\ chat.history[1].req = "r1"
    /\ chat.history[2].req = "r2"
    /\ reply["r2"].kind = "text"

\* the history after the step does not begin with the history before it, or
\* the chat object is gone
HistoryDiscarded ==
    \/ chat.open /\ ~chat'.open
    \/ Len(chat'.history) < Len(chat.history)
    \/ SubSeq(chat'.history, 1, Len(chat.history)) # chat.history

\* C27: a step discards the conversation only if it is the reset route's
\* reset_chat; a logout, a rejected chat request (401 or 400) and a
\* send_message that ends with an error text leave chat and history as they were.
OnlyResetDiscards ==
    [][/\ HistoryDiscarded => ResetChat
       /\ (authed /\ ~authed') => chat' = chat
       /\ \A r \in Req :
             /\ (pc[r] # "idle" /\ pc'[r] = "idle" /\ reply'[r].kind = "http_error")
                   => chat' = chat
             /\ (pc[r] = "idle" /\ reply'[r] # reply[r] /\ reply'[r].kind = "http_error")
                   => chat' = chat
             /\ (InSendMessage(r) /\ reply'[r].kind = "error") => chat' = chat]_vars

\* a conversation that has outlived a failed send_message, a logout and a
\* rejected request
OnlyResetDiscardsWitness ==
    /\ chat.open
    /\ chat.history # <<>>
    /\ ~authed
    /\ reply["r1"] = HttpError(401)
    /\ reply["r2"].kind = "error"

\* the handler of r ends with the given status before send_message is entered:
\* no model call, no tool dispatch, and chat and history as they were
Rejected(r, status) ==
    /\ reply'[r] = HttpError(status)
    /\ pc'[r] = "idle"
    /\ chat' = chat
    /\ turn'[r] = <<>> /\ responses'[r] = <<>> /\ rounds'[r] = 0 /\ idx'[r] = 0

\* C28: a chat request made while not authenticated ends with 401, one whose
\* message is missing or empty ends with 400, in both cases without a model
\* call or a tool dispatch and with chat and history unchanged; a handler gets
\* past the gate only while authenticated and enters send_message only after
\* the message check.
ChatGated ==
    [][\A r \in Req :
          /\ (~authed /\ \E s \in Sessions : ChatRequest(r, s)) => Rejected(r, 401)
          /\ ChatHandle(r, "") => Rejected(r, 400)
          /\ (pc[r] = "idle" /\ pc'[r] # "idle") => authed
          /\ (~InSendMessage(r) /\ InSendMessage(r)') => pc[r] = "parsing"]_vars

\* after a logout a request is turned away with 401, another one was turned
\* away with 400, and the conversation is still there
ChatGatedWitness ==
    /\ ~authed
    /\ reply["r1"] = HttpError(401)
    /\ reply["r2"] = HttpError(400)
    /\ chat.open
    /\ chat.history # <<>>

=============================================================================
